---- MODULE Spec2Model ----
(***************************************************************************)
(* A model of pkg/controller/controller.go of haproxy-ingress: the         *)
(* HAProxyController orchestrator, its startup and shutdown, the           *)
(* reconciliation handler syncIngress driven by the ingress work queue,    *)
(* and the leader-election callbacks acting on the ACME queue.             *)
(*                                                                         *)
(* controller.go is the only file modelled from source.  The work queue    *)
(* (utils.Queue), the leader elector, the proxy instance and the generic   *)
(* controller live in other packages; what the model needs of them is      *)
(* taken from the specification's description of their contracts and is    *)
(* marked "modelled from the specification" where it is defined.           *)
(***************************************************************************)
EXTENDS Integers, Sequences, FiniteSets, TLC

\* ------------------------------------------------------------------ bounds
\* Enqueue attempts made by the resource watchers in one run.
MaxEnq == 3
\* Cap of the per-item failure counter of the Failure-Backoff Queue.
MaxFail == 3

\* ------------------------------------------------------------------ domains
\* Keys the resource cache enqueues on the ingress queue.
Keys == {"resync", "ingress"}
\* Certificates (issuance items) of the ACME queue.
Certs == {"c1", "c2"}
\* Ids of goroutines that may run the ingress queue's Run loop.
Workers == {1, 2}
\* Values the host's flag parser may leave in --reload-strategy.
StrategyValues == {"native", "reusesocket", "multibinder", "bogus"}
NoItem == "none"
\* The callers of instance.AcmeCheck: the periodic timer, OnStartedLeading
\* and the exported AcmeCheck.
ScanCallers == {"periodic", "leading", "external"}

VARIABLES
  pc,              \* position of the goroutine running Start()
  reloadStrategy,  \* *hc.reloadStrategy ("nil": the flag is not registered yet)
  checked,         \* history: OverrideFlags has passed the value reloadStrategy holds
  cfg,             \* hc.cfg: the operator configuration read by the controller
  instanceOptions, \* the haproxy.InstanceOptions handed to CreateInstance
  leaderelector,   \* hc.leaderelector: "nil" or the elector, named by the id it was created with
  acmeSigner,      \* the acmeSigner of configController: "nil" or "signer"
  startLog,        \* the tasks started by startServices, in the order started
  stopPc,          \* position of the goroutine calling Stop()
  stopCh,          \* TRUE once hc.stopCh is closed
  slept,           \* TRUE once Stop() has slept WaitBeforeShutdown
  ended,           \* the tasks given hc.stopCh that have seen it closed and ended
  ingressQueue,    \* hc.ingressQueue
  wpc,             \* per worker: position in the Run loop / in syncIngress
  witem,           \* per worker: the item it holds
  updateCount,     \* hc.updateCount
  completed,       \* history: syncIngress invocations that ran to the final log line
  skipped,         \* history: syncIngress invocations that returned at the shutdown check
  syncCalls,       \* history: converter Sync() calls
  updateCalls,     \* history: instance.Update() calls
  enqCount,        \* history: per key, enqueues made before shutdown
  lateEnq,         \* history: enqueue attempts made after ShutDown
  runsSinceEnq,    \* history: per key, handler invocations since its last enqueue
  invocations,     \* history: handler invocations
  idleBurst,       \* history: every enqueue so far was "resync", before any dequeue
  run,             \* history: per worker, the steps and log ids of its invocation
  proxy,           \* the proxy instance: the update that is live, and its failures
  acmeQueue,       \* hc.acmeQueue
  apc,             \* position of the ACME queue's Run loop
  aitem,           \* the item the ACME worker holds
  leader,          \* who holds the election lease: "none", "self" or "peer"
  cbFired,         \* history: leadership callbacks delivered to this controller
  needed,          \* certificates the current configuration wants issued
  discarded,       \* history: items Clear() dropped, not requested anew since by a check on the leader
  scan,            \* per caller of instance.AcmeCheck: "idle", "called", "scanning", or
                   \* "stale": scanning, the lease lost since the call's leadership test
  overlap          \* history: per caller, the certificates other calls have enqueued while
                   \* its call is in progress and that have not been issued since

lifeVars == <<pc, reloadStrategy, checked, cfg, instanceOptions, leaderelector, acmeSigner, startLog,
              stopPc, stopCh, slept, ended>>
ingressVars == <<ingressQueue, wpc, witem, updateCount, completed, skipped,
                 syncCalls, updateCalls, enqCount, lateEnq, runsSinceEnq,
                 invocations, idleBurst, run, proxy>>
ingressHist == <<updateCount, completed, skipped, syncCalls, updateCalls,
                 enqCount, lateEnq, runsSinceEnq, invocations, idleBurst, run, proxy>>
acmeVars == <<acmeQueue, apc, aitem, leader, cbFired, needed, discarded, scan, overlap>>
vars == <<lifeVars, ingressVars, acmeVars>>

\* ------------------------------------------------------------------ helpers
Range(s) == {s[i] : i \in 1..Len(s)}
IsPrefix(s, t) == Len(s) <= Len(t) /\ \A i \in 1..Len(s) : s[i] = t[i]
SumOver(f) == LET RECURSIVE S(_)
                  S(D) == IF D = {} THEN 0
                          ELSE LET d == CHOOSE x \in D : TRUE IN f[d] + S(D \ {d})
              IN S(DOMAIN f)

\* ------------------------------------------------------------------ queues
\* utils.Queue, modelled from the specification (sections 3, 4.1, 4.2):
\* a deduplicating queue; an item enqueued while it is being processed is
\* remembered once (dirty) and queued again when the processing is done.
NoQueue == [kind |-> "nil"]
Items == Keys \cup Certs

NewQueue(kind) ==
  [kind |-> kind, queue |-> <<>>, dirty |-> {}, processing |-> {},
   delayed |-> {}, failures |-> [i \in Items |-> 0], shuttingDown |-> FALSE,
   failInitial |-> 0, failMax |-> 0, lastDelay |-> [i \in Items |-> 0]]

\* utils.NewRateLimitingQueue(rate, handler)
NewRateLimitingQueue == NewQueue("rate")

\* utils.NewFailureRateLimitingQueue(failInitialWait, failMaxWait, handler)
NewFailureRateLimitingQueue(failInitialWait, failMaxWait) ==
  [NewQueue("failure") EXCEPT !.failInitial = failInitialWait, !.failMax = failMaxWait]

Min(a, b) == IF a <= b THEN a ELSE b
RECURSIVE Pow2(_)
Pow2(n) == IF n <= 0 THEN 1 ELSE 2 * Pow2(n - 1)

\* The delay of an item's retry after its k-th consecutive failure: the
\* initial duration, doubled with every further failure, capped at the
\* maximum.
BackoffDelay(q, k) == Min(q.failInitial * Pow2(k - 1), q.failMax)

\* Enqueue: a no-op after ShutDown, coalesced when the item is already pending.
QueueAdd(q, item) ==
  IF q.shuttingDown \/ item \in q.dirty THEN q
  ELSE IF item \in q.processing THEN [q EXCEPT !.dirty = @ \cup {item}]
  ELSE [q EXCEPT !.dirty = @ \cup {item}, !.queue = Append(@, item)]

QueueCanGet(q) == q.kind # "nil" /\ Len(q.queue) > 0
QueueGet(q) ==
  [q EXCEPT !.queue = Tail(@), !.processing = @ \cup {Head(q.queue)},
            !.dirty = @ \ {Head(q.queue)}]

QueueDone(q, item) ==
  IF item \in q.dirty
  THEN [q EXCEPT !.processing = @ \ {item}, !.queue = Append(@, item)]
  ELSE [q EXCEPT !.processing = @ \ {item}]

QueueShutDown(q) == [q EXCEPT !.shuttingDown = TRUE]
ShuttingDown(q) == q.shuttingDown

\* Items waiting for a handler invocation (queued, coalesced or in backoff).
Pending(q) == IF q.kind = "nil" THEN {} ELSE Range(q.queue) \cup q.dirty \cup q.delayed

\* Clear(): discards all pending and in-flight-scheduled items.
QueueClear(q) == [q EXCEPT !.queue = <<>>, !.dirty = {}, !.delayed = {}]

\* ------------------------------------------------------------------ initial state
\* The record of a handler invocation before its first step.
NoRun == [steps |-> <<>>, startId |-> 0, finishId |-> 0, syncOk |-> TRUE]

\* The configurations the generic controller may hand over (GetConfig).
Cfgs == [AcmeServer : BOOLEAN, WaitBeforeShutdown : {0, 1},
         StatsCollectProcPeriod : {0, 1},
         AcmeFailInitialDuration : {2}, AcmeFailMaxDuration : {3},
         AcmeElectionID : {"acme-leader"}, IngressClass : {"haproxy"}]

\* The state after NewHAProxyController(): every field is its zero value.
Init ==
  /\ pc = "new"
  /\ reloadStrategy = "nil"
  /\ checked = FALSE
  /\ cfg \in Cfgs
  /\ instanceOptions = [created |-> FALSE]
  /\ leaderelector = "nil"
  /\ acmeSigner = "nil"
  /\ startLog = <<>>
  /\ stopPc = "idle"
  /\ stopCh = FALSE
  /\ slept = FALSE
  /\ ended = {}
  /\ ingressQueue = NoQueue
  /\ wpc = [w \in Workers |-> "off"]
  /\ witem = [w \in Workers |-> NoItem]
  /\ updateCount = 0
  /\ completed = 0
  /\ skipped = 0
  /\ syncCalls = 0
  /\ updateCalls = 0
  /\ enqCount = [k \in Keys |-> 0]
  /\ lateEnq = 0
  /\ runsSinceEnq = [k \in Keys |-> 0]
  /\ invocations = 0
  /\ idleBurst = TRUE
  /\ run = [w \in Workers |-> NoRun]
  /\ proxy = [live |-> 0, canFail |-> FALSE, failedRuns |-> 0]
  /\ acmeQueue = NoQueue
  /\ apc = "off"
  /\ aitem = NoItem
  /\ leader = "none"
  /\ cbFired = FALSE
  /\ needed = {}
  /\ discarded = {}
  /\ scan = [t \in ScanCallers |-> "idle"]
  /\ overlap = [t \in ScanCallers |-> {}]

\* ------------------------------------------------------------------ flags
flagFrame == <<cfg, instanceOptions, leaderelector, acmeSigner, startLog, stopPc, stopCh, slept,
               ended>>
startFrame == <<reloadStrategy, checked, cfg, stopPc, stopCh, slept, ended>>

\* Start: hc.controller = controller.NewIngressController(hc).  The host
\* (the generic controller, code of another package) registers its flags,
\* parses the command line and calls the controller's ConfigureFlags and
\* OverrideFlags; the order in which it does so is the host's, so the calls
\* below are enabled in any order until NewIngressController returns.

\* ConfigureFlags: registers --reload-strategy with its default (a flag is
\* registered once: registering it again panics in the flag set).
ConfigureFlags ==
  /\ pc = "new"
  /\ reloadStrategy = "nil"
  /\ reloadStrategy' = "reusesocket"
  /\ checked' = FALSE
  /\ UNCHANGED <<pc, flagFrame, ingressVars, acmeVars>>

\* The host parses the command line: the registered flag keeps its default
\* or takes the value given.
ParseFlags ==
  /\ pc = "new"
  /\ reloadStrategy # "nil"
  /\ \E v \in StrategyValues : reloadStrategy' = v
  /\ checked' = FALSE
  /\ UNCHANGED <<pc, flagFrame, ingressVars, acmeVars>>

SupportedStrategy(v) == v = "native" \/ v = "reusesocket" \/ v = "multibinder"

\* A broken variant: OverrideFlags without the allow-list test.
OverrideFlags_NoCheck ==
  /\ pc = "new"
  /\ checked' = TRUE
  /\ UNCHANGED <<pc, reloadStrategy, flagFrame, ingressVars, acmeVars>>

\* OverrideFlags: glog.Fatalf on a value outside the allow-list (and a
\* nil-pointer panic when the flag was never registered); returns otherwise.
OverrideFlags ==
  /\ pc = "new"
  /\ IF SupportedStrategy(reloadStrategy)
     THEN checked' = TRUE /\ UNCHANGED pc
     ELSE pc' = "fatal" /\ UNCHANGED checked
  /\ UNCHANGED <<reloadStrategy, flagFrame, ingressVars, acmeVars>>

\* NewIngressController returns: Start goes on to configController.
NewIngressControllerReturn ==
  /\ pc = "new"
  /\ pc' = "config"
  /\ UNCHANGED <<reloadStrategy, checked, flagFrame, ingressVars, acmeVars>>

\* ------------------------------------------------------------------ configController
\* configController up to createCache: reads *hc.reloadStrategy (a
\* nil-pointer panic when the flag was never registered) and warns on
\* "multibinder", leaving the value as it is; the value is not tested
\* against the allow-list.  Builds the ingress queue with syncIngress as
\* its handler, the tracker, the dynamic config and the cache.
ConfigQueues ==
  /\ pc = "config"
  /\ IF reloadStrategy = "nil"
     THEN pc' = "fatal" /\ UNCHANGED ingressQueue
     ELSE pc' = "configAcme" /\ ingressQueue' = NewRateLimitingQueue
  /\ UNCHANGED <<startFrame, instanceOptions, leaderelector, acmeSigner, startLog>>
  /\ UNCHANGED <<wpc, witem, ingressHist>>
  /\ UNCHANGED acmeVars

\* A broken variant: the maximum duration is passed for both durations.
AcmeQueueFor_MaxTwice(c) ==
  NewFailureRateLimitingQueue(c.AcmeFailMaxDuration, c.AcmeFailMaxDuration)

\* The ACME queue configController builds from the configuration.
AcmeQueueFor(c) ==
  NewFailureRateLimitingQueue(c.AcmeFailInitialDuration, c.AcmeFailMaxDuration)

\* electorID := fmt.Sprintf("%s-%s", hc.cfg.AcmeElectionID, hc.cfg.IngressClass)
ElectorID(c) == c.AcmeElectionID \o "-" \o c.IngressClass

\* NewLeaderElector(electorID, ...): the elector, named by its id.
NewLeaderElector(electorID) == electorID

\* A broken variant: the elector and the signer are created whatever the
\* configuration says, the queue only for AcmeServer.
ConfigAcme_AlwaysElector ==
  /\ pc = "configAcme"
  /\ leaderelector' = NewLeaderElector(ElectorID(cfg))
  /\ acmeSigner' = "signer"
  /\ IF cfg.AcmeServer
     THEN acmeQueue' = AcmeQueueFor(cfg)
     ELSE UNCHANGED acmeQueue
  /\ pc' = "configInstance"
  /\ UNCHANGED <<startFrame, instanceOptions, startLog, ingressVars>>
  /\ UNCHANGED <<apc, aitem, leader, cbFired, needed, discarded, scan, overlap>>

\* configController, if hc.cfg.AcmeServer: leader elector, signer, ACME queue.
ConfigAcme ==
  /\ pc = "configAcme"
  /\ IF cfg.AcmeServer
     THEN /\ leaderelector' = NewLeaderElector(ElectorID(cfg))
          /\ acmeSigner' = "signer"
          /\ acmeQueue' = AcmeQueueFor(cfg)
     ELSE UNCHANGED <<leaderelector, acmeSigner, acmeQueue>>
  /\ pc' = "configInstance"
  /\ UNCHANGED <<startFrame, instanceOptions, startLog, ingressVars>>
  /\ UNCHANGED <<apc, aitem, leader, cbFired, needed, discarded, scan, overlap>>

\* The haproxy.InstanceOptions configController builds.
BuildInstanceOptions ==
  [created |-> TRUE,
   ReloadStrategy |-> reloadStrategy,
   AcmeSigner |-> acmeSigner,
   AcmeQueue |-> acmeQueue.kind,
   LeaderElector |-> leaderelector]

\* configController from instanceOptions to the end: CreateInstance, then
\* ParseTemplates, fatal when it fails, then the converter options.
ConfigInstance ==
  /\ pc = "configInstance"
  /\ instanceOptions' = BuildInstanceOptions
  /\ \E templatesOk \in BOOLEAN : pc' = IF templatesOk THEN "startCache" ELSE "fatal"
  /\ UNCHANGED <<startFrame, leaderelector, acmeSigner, startLog, ingressVars, acmeVars>>

\* ------------------------------------------------------------------ startServices
svcFrame == <<reloadStrategy, checked, cfg, instanceOptions, leaderelector, acmeSigner, stopPc, stopCh, slept,
              ended>>

\* hc.cache.RunAsync(hc.stopCh)
StartCache ==
  /\ pc = "startCache"
  /\ startLog' = Append(startLog, "cache")
  /\ pc' = "goIngress"
  /\ UNCHANGED <<svcFrame, ingressVars, acmeVars>>

\* A broken variant: the Run loop of the ingress queue is started twice.
GoIngressQueueRun_Twice ==
  /\ pc = "goIngress"
  /\ wpc' = [w \in Workers |-> "idle"]
  /\ startLog' = Append(startLog, "ingressWorker")
  /\ pc' = "startIdle"
  /\ UNCHANGED <<svcFrame, ingressQueue, witem, ingressHist, acmeVars>>

\* go hc.ingressQueue.Run(): one goroutine runs the queue's loop.
GoIngressQueueRun ==
  /\ pc = "goIngress"
  /\ wpc' = [wpc EXCEPT ![1] = "idle"]
  /\ startLog' = Append(startLog, "ingressWorker")
  /\ pc' = "startIdle"
  /\ UNCHANGED <<svcFrame, ingressQueue, witem, ingressHist, acmeVars>>

\* if StatsCollectProcPeriod > 0: go wait.Until(CalcIdleMetric, ...)
StartIdle ==
  /\ pc = "startIdle"
  /\ startLog' = IF cfg.StatsCollectProcPeriod > 0
                 THEN Append(startLog, "idle") ELSE startLog
  /\ pc' = "startElector"
  /\ UNCHANGED <<svcFrame, ingressVars, acmeVars>>

\* A broken variant: the elector is run without the nil check.
StartElector_NoNilCheck ==
  /\ pc = "startElector"
  /\ startLog' = Append(startLog, "elector")
  /\ pc' = "acmeListen"
  /\ UNCHANGED <<svcFrame, ingressVars, acmeVars>>

\* if hc.leaderelector != nil: go hc.leaderelector.Run(hc.stopCh)
StartElector ==
  /\ pc = "startElector"
  /\ startLog' = IF leaderelector # "nil"
                 THEN Append(startLog, "elector") ELSE startLog
  /\ pc' = "acmeListen"
  /\ UNCHANGED <<svcFrame, ingressVars, acmeVars>>

\* if hc.cfg.AcmeServer: acme.NewServer(...).Listen, fatal when it fails.
AcmeListen ==
  /\ pc = "acmeListen"
  /\ IF cfg.AcmeServer
     THEN \E bindOk \in BOOLEAN :
            IF bindOk
            THEN startLog' = Append(startLog, "acmeServer") /\ pc' = "goAcme"
            ELSE startLog' = startLog /\ pc' = "fatal"
     ELSE startLog' = startLog /\ pc' = "startController"
  /\ UNCHANGED <<svcFrame, ingressVars, acmeVars>>

\* go hc.acmeQueue.Run()
GoAcmeQueueRun ==
  /\ pc = "goAcme"
  /\ apc' = "idle"
  /\ startLog' = Append(startLog, "acmeWorker")
  /\ pc' = "goAcmeCheck"
  /\ UNCHANGED <<svcFrame, ingressVars>>
  /\ UNCHANGED <<acmeQueue, aitem, leader, cbFired, needed, discarded, scan, overlap>>

\* go wait.JitterUntil(AcmeCheck("periodic check"), AcmeCheckPeriod, ...)
GoAcmeCheck ==
  /\ pc = "goAcmeCheck"
  /\ startLog' = Append(startLog, "acmeCheck")
  /\ pc' = "startController"
  /\ UNCHANGED <<svcFrame, ingressVars, acmeVars>>

\* hc.controller.StartAsync()
ControllerStartAsync ==
  /\ pc = "startController"
  /\ startLog' = Append(startLog, "controller")
  /\ pc' = "waiting"
  /\ UNCHANGED <<svcFrame, ingressVars, acmeVars>>

\* ------------------------------------------------------------------ shutdown
\* glog.Fatalf ends the process, and every goroutine with it.
Alive == pc # "fatal"

\* Start: <-hc.stopCh
StartWait ==
  /\ pc = "waiting"
  /\ stopCh
  /\ pc' = "stopServices"
  /\ UNCHANGED <<svcFrame, startLog, ingressVars, acmeVars>>

\* stopServices: hc.ingressQueue.ShutDown()
StopIngressQueue ==
  /\ pc = "stopServices"
  /\ ingressQueue' = QueueShutDown(ingressQueue)
  /\ pc' = "stopAcme"
  /\ UNCHANGED <<svcFrame, startLog, wpc, witem, ingressHist, acmeVars>>

\* A broken variant: the ACME queue is left open.
StopAcmeQueue_Skip ==
  /\ pc = "stopAcme"
  /\ pc' = "returned"
  /\ UNCHANGED <<svcFrame, startLog, ingressVars, acmeVars>>

\* stopServices: if hc.acmeQueue != nil { hc.acmeQueue.ShutDown() }; Start
\* then returns.
StopAcmeQueue ==
  /\ pc = "stopAcme"
  /\ acmeQueue' = IF acmeQueue.kind # "nil" THEN QueueShutDown(acmeQueue) ELSE acmeQueue
  /\ pc' = "returned"
  /\ UNCHANGED <<svcFrame, startLog, ingressVars>>
  /\ UNCHANGED <<apc, aitem, leader, cbFired, needed, discarded, scan, overlap>>

\* stopServices: its two calls, one after the other; the other goroutines
\* run between them.
StopServices == StopIngressQueue \/ StopAcmeQueue

\* hc.controller and hc.cfg are set (Start is past the head of
\* configController) and the process has not been ended by a fatal error.
Configured ==
  pc \in {"configAcme", "configInstance", "startCache", "goIngress", "startIdle",
          "startElector", "acmeListen", "goAcme", "goAcmeCheck", "startController",
          "waiting", "stopServices", "stopAcme", "returned"}

stopFrame == <<pc, reloadStrategy, checked, cfg, instanceOptions, leaderelector, acmeSigner, startLog, ended>>

\* GenericController.Stop(), modelled from the specification (section 6):
\* the external controller is told to stop, which closes the stop channel
\* it supplied through GetStopCh().
ControllerStop == stopCh' = TRUE

\* A broken variant: the external controller is stopped before the sleep.
StopCall_SignalFirst ==
  /\ stopPc = "idle"
  /\ Configured
  /\ ControllerStop
  /\ stopPc' = IF cfg.WaitBeforeShutdown > 0 THEN "sleep" ELSE "signal"
  /\ UNCHANGED <<stopFrame, slept, ingressVars, acmeVars>>

\* Stop(): entry, the test of WaitBeforeShutdown.
StopCall ==
  /\ stopPc = "idle"
  /\ Configured
  /\ stopPc' = IF cfg.WaitBeforeShutdown > 0 THEN "sleep" ELSE "signal"
  /\ UNCHANGED <<stopFrame, stopCh, slept, ingressVars, acmeVars>>

\* Stop(): time.Sleep(waitBeforeShutdown) returns.
StopSleep ==
  /\ Alive
  /\ stopPc = "sleep"
  /\ slept' = TRUE
  /\ stopPc' = "signal"
  /\ UNCHANGED <<stopFrame, stopCh, ingressVars, acmeVars>>

\* Stop(): err := hc.controller.Stop(); return err
StopController ==
  /\ Alive
  /\ stopPc = "signal"
  /\ ControllerStop
  /\ stopPc' = "done"
  /\ UNCHANGED <<stopFrame, slept, ingressVars, acmeVars>>

\* ------------------------------------------------------------------ ingress queue
ingressLife == <<lifeVars, acmeVars>>
EnqAttempts == SumOver(enqCount) + lateEnq

\* A resource watcher of the cache enqueues a key (the cache was given the
\* queue by createCache and pushes once its watchers run).  After ShutDown
\* the enqueue is a no-op.
Enqueue(k) ==
  /\ Alive
  /\ "cache" \in Range(startLog)
  /\ "cache" \notin ended
  /\ EnqAttempts < MaxEnq
  /\ ingressQueue' = QueueAdd(ingressQueue, k)
  /\ IF ShuttingDown(ingressQueue)
     THEN /\ lateEnq' = lateEnq + 1
          /\ UNCHANGED <<enqCount, runsSinceEnq, idleBurst>>
     ELSE /\ enqCount' = [enqCount EXCEPT ![k] = @ + 1]
          /\ runsSinceEnq' = [runsSinceEnq EXCEPT ![k] = 0]
          /\ idleBurst' = (idleBurst /\ k = "resync" /\ invocations = 0)
          /\ UNCHANGED lateEnq
  /\ UNCHANGED <<wpc, witem, updateCount, completed, skipped, syncCalls,
                 updateCalls, invocations, run, proxy>>
  /\ UNCHANGED ingressLife

\* Run loop: take the next item and invoke the handler with it.
WorkerGet(w) ==
  /\ Alive
  /\ wpc[w] = "idle"
  /\ QueueCanGet(ingressQueue)
  /\ witem' = [witem EXCEPT ![w] = Head(ingressQueue.queue)]
  /\ ingressQueue' = QueueGet(ingressQueue)
  /\ wpc' = [wpc EXCEPT ![w] = "invoke"]
  /\ runsSinceEnq' = [runsSinceEnq EXCEPT ![Head(ingressQueue.queue)] = @ + 1]
  /\ invocations' = invocations + 1
  /\ UNCHANGED <<updateCount, completed, skipped, syncCalls, updateCalls,
                 enqCount, lateEnq, idleBurst, run, proxy>>
  /\ UNCHANGED ingressLife

\* Run loop: the queue is shut down and drained, the loop ends.
WorkerQuit(w) ==
  /\ Alive
  /\ wpc[w] = "idle"
  /\ ingressQueue.kind # "nil"
  /\ ShuttingDown(ingressQueue)
  /\ Len(ingressQueue.queue) = 0
  /\ wpc' = [wpc EXCEPT ![w] = "exit"]
  /\ UNCHANGED <<ingressQueue, witem, ingressHist>>
  /\ UNCHANGED ingressLife

\* A broken variant: the counter is bumped before the ShuttingDown test.
SyncIngressCheck_CountFirst(w) ==
  /\ Alive
  /\ wpc[w] = "invoke"
  /\ updateCount' = updateCount + 1
  /\ IF ShuttingDown(ingressQueue)
     THEN wpc' = [wpc EXCEPT ![w] = "done"] /\ skipped' = skipped + 1
     ELSE wpc' = [wpc EXCEPT ![w] = "convert"] /\ skipped' = skipped
  /\ UNCHANGED <<ingressQueue, witem, completed, syncCalls, updateCalls,
                 enqCount, lateEnq, runsSinceEnq, invocations, idleBurst, run, proxy>>
  /\ UNCHANGED ingressLife

\* A broken variant: syncIngress without the ShuttingDown test.
SyncIngressCheck_NoTest(w) ==
  /\ Alive
  /\ wpc[w] = "invoke"
  /\ wpc' = [wpc EXCEPT ![w] = "count"]
  /\ UNCHANGED <<ingressQueue, witem, ingressHist>>
  /\ UNCHANGED ingressLife

\* syncIngress: if hc.ingressQueue.ShuttingDown() { return }
SyncIngressCheck(w) ==
  /\ Alive
  /\ wpc[w] = "invoke"
  /\ IF ShuttingDown(ingressQueue)
     THEN wpc' = [wpc EXCEPT ![w] = "done"] /\ skipped' = skipped + 1
     ELSE wpc' = [wpc EXCEPT ![w] = "count"] /\ skipped' = skipped
  /\ UNCHANGED <<ingressQueue, witem, updateCount, completed, syncCalls, updateCalls,
                 enqCount, lateEnq, runsSinceEnq, invocations, idleBurst, run, proxy>>
  /\ UNCHANGED ingressLife

\* A broken variant: the increment is left out.
SyncIngressCount_NoIncrement(w) ==
  /\ Alive
  /\ wpc[w] = "count"
  /\ wpc' = [wpc EXCEPT ![w] = "convert"]
  /\ UNCHANGED <<ingressQueue, witem, ingressHist>>
  /\ UNCHANGED ingressLife

\* A broken variant: the converter is left out, the update follows the
\* increment.
SyncIngressCount_NoSync(w) ==
  /\ Alive
  /\ wpc[w] = "count"
  /\ updateCount' = updateCount + 1
  /\ run' = [run EXCEPT ![w].steps = Append(@, "count"), ![w].startId = updateCount + 1]
  /\ wpc' = [wpc EXCEPT ![w] = "update"]
  /\ UNCHANGED <<ingressQueue, witem, completed, skipped, syncCalls, updateCalls,
                 enqCount, lateEnq, runsSinceEnq, invocations, idleBurst, proxy>>
  /\ UNCHANGED ingressLife

\* syncIngress: hc.updateCount++, the starting log line with the new id,
\* the timer.
SyncIngressCount(w) ==
  /\ Alive
  /\ wpc[w] = "count"
  /\ updateCount' = updateCount + 1
  /\ run' = [run EXCEPT ![w].steps = Append(@, "count"), ![w].startId = updateCount + 1]
  /\ wpc' = [wpc EXCEPT ![w] = "convert"]
  /\ UNCHANGED <<ingressQueue, witem, completed, skipped, syncCalls, updateCalls,
                 enqCount, lateEnq, runsSinceEnq, invocations, idleBurst, proxy>>
  /\ UNCHANGED ingressLife

\* The outcomes of a call into the converter or the proxy instance.
Outcomes == IF proxy.canFail THEN BOOLEAN ELSE {TRUE}

\* syncIngress: converters.NewConverter(timer, hc.instance.Config(), ...).Sync()
\* No result of Sync is read: whatever it met, the handler goes on.
SyncIngressConvert(w) ==
  /\ Alive
  /\ wpc[w] = "convert"
  /\ syncCalls' = syncCalls + 1
  /\ \E ok \in Outcomes :
       run' = [run EXCEPT ![w].steps = Append(@, "sync"), ![w].syncOk = ok]
  /\ wpc' = [wpc EXCEPT ![w] = "update"]
  /\ UNCHANGED <<ingressQueue, witem, updateCount, completed, skipped, updateCalls,
                 enqCount, lateEnq, runsSinceEnq, invocations, idleBurst, proxy>>
  /\ UNCHANGED ingressLife

\* instance.Update(timer), modelled from the specification (sections 4.4,
\* 6): the rebuilt configuration becomes the live one when the converter
\* and the apply both succeeded, otherwise the live one stays.
InstanceUpdate(w, applied) ==
  [proxy EXCEPT !.live = IF run[w].syncOk /\ applied THEN updateCount ELSE @,
                !.failedRuns = IF run[w].syncOk /\ applied THEN @ ELSE @ + 1]

\* A broken variant: the counter is bumped again when the update finishes.
SyncIngressUpdate_CountAgain(w) ==
  /\ Alive
  /\ wpc[w] = "update"
  /\ updateCalls' = updateCalls + 1
  /\ completed' = completed + 1
  /\ updateCount' = updateCount + 1
  /\ wpc' = [wpc EXCEPT ![w] = "done"]
  /\ UNCHANGED <<ingressQueue, witem, skipped, syncCalls,
                 enqCount, lateEnq, runsSinceEnq, invocations, idleBurst, run, proxy>>
  /\ UNCHANGED ingressLife

\* A broken variant: a reconciliation that failed puts its item back on
\* the queue.
SyncIngressUpdate_Retry(w) ==
  /\ Alive
  /\ wpc[w] = "update"
  /\ updateCalls' = updateCalls + 1
  /\ completed' = completed + 1
  /\ \E applied \in Outcomes :
       /\ proxy' = InstanceUpdate(w, applied)
       /\ ingressQueue' = IF run[w].syncOk /\ applied THEN ingressQueue
                          ELSE QueueAdd(ingressQueue, witem[w])
  /\ run' = [run EXCEPT ![w].steps = Append(@, "update"), ![w].finishId = updateCount]
  /\ wpc' = [wpc EXCEPT ![w] = "done"]
  /\ UNCHANGED <<witem, updateCount, skipped, syncCalls,
                 enqCount, lateEnq, runsSinceEnq, invocations, idleBurst>>
  /\ UNCHANGED ingressLife

\* A broken variant: the update waits until no certificate is being
\* issued or waits to be.
SyncIngressUpdate_BehindAcme(w) ==
  /\ Alive
  /\ wpc[w] = "update"
  /\ Pending(acmeQueue) = {}
  /\ apc # "signing"
  /\ updateCalls' = updateCalls + 1
  /\ completed' = completed + 1
  /\ \E applied \in Outcomes : proxy' = InstanceUpdate(w, applied)
  /\ run' = [run EXCEPT ![w].steps = Append(@, "update"), ![w].finishId = updateCount]
  /\ wpc' = [wpc EXCEPT ![w] = "done"]
  /\ UNCHANGED <<ingressQueue, witem, updateCount, skipped, syncCalls,
                 enqCount, lateEnq, runsSinceEnq, invocations, idleBurst>>
  /\ UNCHANGED ingressLife

\* syncIngress: hc.instance.Update(timer), the finishing log line with
\* hc.updateCount, return.  Update returns nothing the handler reads.
SyncIngressUpdate(w) ==
  /\ Alive
  /\ wpc[w] = "update"
  /\ updateCalls' = updateCalls + 1
  /\ completed' = completed + 1
  /\ \E applied \in Outcomes : proxy' = InstanceUpdate(w, applied)
  /\ run' = [run EXCEPT ![w].steps = Append(@, "update"), ![w].finishId = updateCount]
  /\ wpc' = [wpc EXCEPT ![w] = "done"]
  /\ UNCHANGED <<ingressQueue, witem, updateCount, skipped, syncCalls,
                 enqCount, lateEnq, runsSinceEnq, invocations, idleBurst>>
  /\ UNCHANGED ingressLife

\* Run loop: the handler returned, the item is marked done.
WorkerDone(w) ==
  /\ Alive
  /\ wpc[w] = "done"
  /\ ingressQueue' = QueueDone(ingressQueue, witem[w])
  /\ witem' = [witem EXCEPT ![w] = NoItem]
  /\ wpc' = [wpc EXCEPT ![w] = "idle"]
  /\ run' = [run EXCEPT ![w] = NoRun]
  /\ UNCHANGED <<updateCount, completed, skipped, syncCalls, updateCalls,
                 enqCount, lateEnq, runsSinceEnq, invocations, idleBurst, proxy>>
  /\ UNCHANGED ingressLife

\* ------------------------------------------------------------------ certificate workflow
\* Modelled from the specification (sections 4.2 to 4.5): the instance's
\* AcmeCheck, the leader elector and the ACME queue's worker are code of
\* other packages.
acmeLife == <<lifeVars, ingressVars>>

RECURSIVE AddAll(_, _)
AddAll(q, S) ==
  IF S = {} THEN q
  ELSE LET c == CHOOSE x \in S : TRUE IN AddAll(QueueAdd(q, c), S \ {c})

\* The items of S an Add would take (not refused, not coalesced).
Accepted(q, S) == {c \in S : QueueAdd(q, c) # q}

\* A call of hc.instance.AcmeCheck(reason) by caller t is made.  The model
\* follows one call per caller at a time: a caller makes its next call
\* once its previous one has returned.
InstanceAcmeCheckCall(t) ==
  /\ scan[t] = "idle"
  /\ scan' = [scan EXCEPT ![t] = "called"]
  /\ UNCHANGED overlap

\* The calls that have passed the leadership test and not returned yet.
Scanning == {t \in ScanCallers : scan[t] \in {"scanning", "stale"}}

\* instance.AcmeCheck, entry: on a replica that is not the leader (or has
\* no ACME queue) the call returns at once, on the leader the scan starts.
\* Whether the instance makes overlapping calls wait for each other is not
\* decided by this repository's code: the calls may run one after the
\* other or side by side.
InstanceAcmeCheckBegin(t) ==
  /\ Alive
  /\ scan[t] = "called"
  /\ IF leader = "self" /\ acmeQueue.kind # "nil"
     THEN scan' = [scan EXCEPT ![t] = "scanning"] /\ UNCHANGED overlap
     ELSE scan' = [scan EXCEPT ![t] = "idle"] /\ overlap' = [overlap EXCEPT ![t] = {}]
  /\ UNCHANGED <<acmeQueue, apc, aitem, leader, cbFired, needed, discarded>>
  /\ UNCHANGED acmeLife

\* instance.AcmeCheck, the scan: every certificate that needs issuing is
\* enqueued, and the call returns.  The call has no context to consult: it
\* does the same whether or not the lease was lost since its test.
InstanceAcmeCheckScan(t) ==
  /\ Alive
  /\ t \in Scanning
  /\ acmeQueue' = AddAll(acmeQueue, needed)
  /\ discarded' = IF scan[t] = "stale" \/ leader # "self" THEN discarded
                  ELSE discarded \ Accepted(acmeQueue, needed)
  /\ scan' = [scan EXCEPT ![t] = "idle"]
  /\ overlap' = [u \in ScanCallers |->
                   IF u = t THEN {}
                   ELSE IF scan[u] # "idle" THEN overlap[u] \cup Accepted(acmeQueue, needed)
                   ELSE overlap[u]]
  /\ UNCHANGED <<apc, aitem, leader, cbFired, needed>>
  /\ UNCHANGED acmeLife

\* OnStartedLeading(ctx): hc.instance.AcmeCheck("started leading"); ctx is
\* not used and not handed on.
OnStartedLeading == InstanceAcmeCheckCall("leading")

\* OnStoppedLeading: hc.acmeQueue.Clear()
OnStoppedLeading ==
  /\ discarded' = discarded \cup Pending(acmeQueue)
  /\ acmeQueue' = QueueClear(acmeQueue)

\* The lease is gone: the scans that passed the leadership test are stale,
\* and the requests Clear() dropped are no longer outstanding.
LeaseLost ==
  /\ scan' = [t \in ScanCallers |-> IF scan[t] = "scanning" THEN "stale" ELSE scan[t]]
  /\ overlap' = [t \in ScanCallers |-> overlap[t] \ Pending(acmeQueue)]

ElectorRunning == "elector" \in Range(startLog) /\ "elector" \notin ended

\* The elector wins the lease: OnNewLeader (a log line), and OnStartedLeading
\* on a goroutine of its own.
ElectorAcquire ==
  /\ Alive
  /\ ElectorRunning
  /\ ~stopCh
  /\ leader = "none"
  /\ leader' = "self"
  /\ cbFired' = TRUE
  /\ OnStartedLeading
  /\ UNCHANGED <<acmeQueue, apc, aitem, needed, discarded>>
  /\ UNCHANGED acmeLife

\* The elector loses or releases the lease: the context of OnStartedLeading
\* is cancelled, OnStoppedLeading is called.
ElectorLose ==
  /\ Alive
  /\ ElectorRunning
  /\ leader = "self"
  /\ leader' = "none"
  /\ cbFired' = TRUE
  /\ OnStoppedLeading
  /\ LeaseLost
  /\ UNCHANGED <<apc, aitem, needed>>
  /\ UNCHANGED acmeLife

\* Another replica wins the lease: OnNewLeader(identity), a log line.
PeerAcquire ==
  /\ Alive
  /\ ElectorRunning
  /\ leader = "none"
  /\ leader' = "peer"
  /\ UNCHANGED <<acmeQueue, apc, aitem, cbFired, needed, discarded, scan, overlap>>
  /\ UNCHANGED acmeLife

\* The other replica gives the lease up.
PeerLose ==
  /\ Alive
  /\ ElectorRunning
  /\ leader = "peer"
  /\ leader' = "none"
  /\ UNCHANGED <<acmeQueue, apc, aitem, cbFired, needed, discarded, scan, overlap>>
  /\ UNCHANGED acmeLife

\* The jittered timer started by startServices: AcmeCheck("periodic check").
PeriodicCheck ==
  /\ Alive
  /\ "acmeCheck" \in Range(startLog)
  /\ ~stopCh
  /\ scan["periodic"] = "idle"
  /\ InstanceAcmeCheckCall("periodic")
  /\ UNCHANGED <<acmeQueue, apc, aitem, leader, cbFired, needed, discarded>>
  /\ UNCHANGED acmeLife

\* AcmeCheck(): hc.instance.AcmeCheck("external call")
AcmeCheck ==
  /\ Alive
  /\ instanceOptions.created
  /\ scan["external"] = "idle"
  /\ InstanceAcmeCheckCall("external")
  /\ UNCHANGED <<acmeQueue, apc, aitem, leader, cbFired, needed, discarded>>
  /\ UNCHANGED acmeLife

\* The converter finds a certificate that has to be issued.
CertNeeded(c) ==
  /\ Alive
  /\ c \notin needed
  /\ needed' = needed \cup {c}
  /\ UNCHANGED <<acmeQueue, apc, aitem, leader, cbFired, discarded, scan, overlap>>
  /\ UNCHANGED acmeLife

\* ACME Run loop: take the next item and call the signer's Notify with it.
AcmeGet ==
  /\ Alive
  /\ apc = "idle"
  /\ QueueCanGet(acmeQueue)
  /\ aitem' = Head(acmeQueue.queue)
  /\ acmeQueue' = QueueGet(acmeQueue)
  /\ apc' = "signing"
  /\ UNCHANGED <<leader, cbFired, needed, discarded, scan, overlap>>
  /\ UNCHANGED acmeLife

\* ACME Run loop: Notify returned.  On success the backoff of the item is
\* reset; on failure the item is scheduled again after its backoff (no
\* longer once the queue is shut down).  Then the item is marked done.
\* The failure counter is followed up to MaxFail; lastDelay keeps the delay
\* of the retry scheduled last.
NotifyReturn(ok) ==
  /\ Alive
  /\ apc = "signing"
  /\ LET c == aitem
         k == Min(acmeQueue.failures[c] + 1, MaxFail)
         q1 == IF ok THEN [acmeQueue EXCEPT !.failures[c] = 0, !.lastDelay[c] = 0]
               ELSE IF ShuttingDown(acmeQueue) THEN acmeQueue
               ELSE [acmeQueue EXCEPT !.failures[c] = k,
                                      !.lastDelay[c] = BackoffDelay(acmeQueue, k),
                                      !.delayed = @ \cup {c}]
     IN /\ acmeQueue' = QueueDone(q1, c)
        /\ needed' = IF ok THEN needed \ {c} ELSE needed
        /\ overlap' = IF ok THEN [t \in ScanCallers |-> overlap[t] \ {c}] ELSE overlap
  /\ apc' = "idle"
  /\ aitem' = NoItem
  /\ UNCHANGED <<leader, cbFired, discarded, scan>>
  /\ UNCHANGED acmeLife

\* The backoff of a failed item has passed: it is enqueued.
DelayExpire(c) ==
  /\ Alive
  /\ acmeQueue.kind # "nil"
  /\ c \in acmeQueue.delayed
  /\ acmeQueue' = QueueAdd([acmeQueue EXCEPT !.delayed = @ \ {c}], c)
  /\ UNCHANGED <<apc, aitem, leader, cbFired, needed, discarded, scan, overlap>>
  /\ UNCHANGED acmeLife

\* ------------------------------------------------------------------ task termination
\* Modelled from the specification (section 5): every task startServices
\* hands hc.stopCh to watches it and ends once it is closed; a queue's Run
\* loop ends once the queue is shut down and drained.
StopChTasks == {"cache", "idle", "elector", "acmeServer", "acmeCheck"}

\* The cache watchers, the idle sampler or the ACME socket server see the
\* stop channel closed and end.
TaskEnd(t) ==
  /\ Alive
  /\ stopCh
  /\ t \in {"cache", "idle", "acmeServer"}
  /\ t \in Range(startLog)
  /\ t \notin ended
  /\ ended' = ended \cup {t}
  /\ UNCHANGED <<pc, reloadStrategy, checked, cfg, instanceOptions, leaderelector, acmeSigner, startLog,
                 stopPc, stopCh, slept>>
  /\ UNCHANGED <<ingressVars, acmeVars>>

\* wait.JitterUntil: the timer loop tests the stop channel between two
\* checks and ends.
PeriodicEnd ==
  /\ Alive
  /\ stopCh
  /\ "acmeCheck" \in Range(startLog)
  /\ "acmeCheck" \notin ended
  /\ scan["periodic"] = "idle"
  /\ ended' = ended \cup {"acmeCheck"}
  /\ UNCHANGED <<pc, reloadStrategy, checked, cfg, instanceOptions, leaderelector, acmeSigner, startLog,
                 stopPc, stopCh, slept>>
  /\ UNCHANGED <<ingressVars, acmeVars>>

\* leaderelector.Run(hc.stopCh) ends: a lease held is released, with
\* OnStoppedLeading.
ElectorEnd ==
  /\ Alive
  /\ stopCh
  /\ ElectorRunning
  /\ ended' = ended \cup {"elector"}
  /\ IF leader = "self"
     THEN leader' = "none" /\ cbFired' = TRUE /\ OnStoppedLeading /\ LeaseLost
     ELSE UNCHANGED <<leader, cbFired, acmeQueue, discarded, scan, overlap>>
  /\ UNCHANGED <<apc, aitem, needed>>
  /\ UNCHANGED <<pc, reloadStrategy, checked, cfg, instanceOptions, leaderelector, acmeSigner, startLog,
                 stopPc, stopCh, slept>>
  /\ UNCHANGED ingressVars

\* ACME Run loop: the queue is shut down and drained, the loop ends.
AcmeQuit ==
  /\ Alive
  /\ apc = "idle"
  /\ acmeQueue.kind # "nil"
  /\ ShuttingDown(acmeQueue)
  /\ Len(acmeQueue.queue) = 0
  /\ apc' = "exit"
  /\ UNCHANGED <<acmeQueue, aitem, leader, cbFired, needed, discarded, scan, overlap>>
  /\ UNCHANGED acmeLife

\* ------------------------------------------------------------------ specifications
\* The host's calls in the order the comments of ConfigureFlags and
\* OverrideFlags name: the flags are registered, the command line is
\* parsed, the parsed value is checked, NewIngressController returns.
HostInOrder ==
  \/ ConfigureFlags
  \/ (~checked /\ ParseFlags)
  \/ OverrideFlags
  \/ (checked /\ NewIngressControllerReturn)

\* The host's calls in any order.
HostAnyOrder ==
  ConfigureFlags \/ ParseFlags \/ OverrideFlags \/ NewIngressControllerReturn

\* configController and startServices.
StartUp ==
  \/ ConfigQueues \/ ConfigAcme \/ ConfigInstance
  \/ StartCache \/ GoIngressQueueRun \/ StartIdle \/ StartElector
  \/ AcmeListen \/ GoAcmeQueueRun \/ GoAcmeCheck \/ ControllerStartAsync

Lifecycle ==
  \/ HostInOrder
  \/ ConfigQueues \/ ConfigAcme \/ ConfigInstance
  \/ StartCache \/ GoIngressQueueRun \/ StartIdle \/ StartElector
  \/ AcmeListen \/ GoAcmeQueueRun \/ GoAcmeCheck \/ ControllerStartAsync
  \/ StartWait \/ StopServices
  \/ StopCall \/ StopSleep \/ StopController

Reconcile ==
  \/ \E k \in Keys : Enqueue(k)
  \/ \E w \in Workers :
       \/ WorkerGet(w) \/ WorkerQuit(w) \/ SyncIngressCheck(w) \/ SyncIngressCount(w)
       \/ SyncIngressConvert(w) \/ SyncIngressUpdate(w) \/ WorkerDone(w)

\* The elector of this replica and the check its callback starts.
Election ==
  \/ ElectorAcquire \/ ElectorLose
  \/ InstanceAcmeCheckBegin("leading") \/ InstanceAcmeCheckScan("leading")

\* The other replicas of the election.
Peers == PeerAcquire \/ PeerLose

Issuance ==
  \/ PeriodicCheck \/ AcmeCheck
  \/ \E t \in {"periodic", "external"} :
       InstanceAcmeCheckBegin(t) \/ InstanceAcmeCheckScan(t)
  \/ CertNeeded("c1") \/ DelayExpire("c1")
  \/ AcmeGet
  \/ \E ok \in BOOLEAN : NotifyReturn(ok)

\* The controller from construction to shutdown, with the resource watchers
\* enqueueing and the elector delivering its callbacks; no certificate
\* needs issuing and no other replica competes for the lease.
Next == Lifecycle \/ Reconcile \/ Election
Spec == Init /\ [][Next]_vars

\* The startup alone, the host free in the order of its calls.
NextHost == HostAnyOrder \/ StartUp
SpecHost == Init /\ [][NextHost]_vars

\* The expected order of the tasks startServices starts, for a configuration.
StartOrder(c) ==
  <<"cache", "ingressWorker">>
  \o (IF c.StatsCollectProcPeriod > 0 THEN <<"idle">> ELSE <<>>)
  \o (IF c.AcmeServer THEN <<"elector", "acmeServer", "acmeWorker", "acmeCheck">> ELSE <<>>)
  \o <<"controller">>

\* Stop() and the rest of Start() after the stop signal.
Shutdown == StopCall \/ StopSleep \/ StopController \/ StartWait \/ StopServices

\* A started controller, as startServices leaves it for configuration c,
\* with a converter and a proxy that may fail when failing is TRUE, and
\* with the lease held by ldr.
StartedAs(c, failing, ldr) ==
  /\ pc = "waiting"
  /\ reloadStrategy = "reusesocket"
  /\ checked = TRUE
  /\ cfg = c
  /\ leaderelector = IF c.AcmeServer THEN NewLeaderElector(ElectorID(c)) ELSE "nil"
  /\ acmeSigner = IF c.AcmeServer THEN "signer" ELSE "nil"
  /\ acmeQueue = IF c.AcmeServer THEN AcmeQueueFor(c) ELSE NoQueue
  /\ instanceOptions = BuildInstanceOptions
  /\ startLog = StartOrder(c)
  /\ stopPc = "idle"
  /\ stopCh = FALSE
  /\ slept = FALSE
  /\ ended = {}
  /\ ingressQueue = NewRateLimitingQueue
  /\ wpc = [w \in Workers |-> IF w = 1 THEN "idle" ELSE "off"]
  /\ witem = [w \in Workers |-> NoItem]
  /\ updateCount = 0
  /\ completed = 0
  /\ skipped = 0
  /\ syncCalls = 0
  /\ updateCalls = 0
  /\ enqCount = [k \in Keys |-> 0]
  /\ lateEnq = 0
  /\ runsSinceEnq = [k \in Keys |-> 0]
  /\ invocations = 0
  /\ idleBurst = TRUE
  /\ run = [w \in Workers |-> NoRun]
  /\ proxy = [live |-> 0, canFail |-> failing, failedRuns |-> 0]
  /\ apc = IF c.AcmeServer THEN "idle" ELSE "off"
  /\ aitem = NoItem
  /\ leader = ldr
  /\ cbFired = (ldr = "self")
  /\ needed = {}
  /\ discarded = {}
  /\ scan = [t \in ScanCallers |-> "idle"]
  /\ overlap = [t \in ScanCallers |-> {}]

\* The same before the elector has acquired anything.
Started(c, failing) == StartedAs(c, failing, "none")

\* A controller in certificate-issuance mode that has started and waits for
\* the stop signal, the ingress queue quiet.
InitAcme ==
  \E c \in Cfgs : c.AcmeServer /\ c.StatsCollectProcPeriod = 0
                  /\ c.WaitBeforeShutdown = 0 /\ Started(c, FALSE)

\* The certificate workflow of a running controller.
NextAcme == Election \/ Peers \/ Issuance
SpecAcme == InitAcme /\ [][NextAcme]_vars

\* The configurations of the backoff: any pair of durations, which
\* configController hands to the queue as they come.
BackoffCfgs ==
  [AcmeServer : {TRUE}, WaitBeforeShutdown : {0}, StatsCollectProcPeriod : {0},
   AcmeFailInitialDuration : {1, 2, 3}, AcmeFailMaxDuration : {1, 2, 3},
   AcmeElectionID : {"acme-leader"}, IngressClass : {"haproxy"}]

\* The ACME queue at work on a replica that leads: certificates become
\* needed, the periodic check enqueues them, Notify fails or succeeds, the
\* backoff of a failed item passes.
InitBackoff == \E c \in BackoffCfgs : StartedAs(c, FALSE, "self")
NextBackoff ==
  \/ \E c \in Certs : CertNeeded(c) \/ DelayExpire(c)
  \/ PeriodicCheck
  \/ InstanceAcmeCheckBegin("periodic") \/ InstanceAcmeCheckScan("periodic")
  \/ AcmeGet
  \/ \E ok \in BOOLEAN : NotifyReturn(ok)
SpecBackoff == InitBackoff /\ [][NextBackoff]_vars

\* Reconciliation on a started controller without certificate issuance,
\* the converter and the proxy failing at will, up to the shutdown.
InitSync ==
  \E c \in Cfgs : ~c.AcmeServer /\ c.StatsCollectProcPeriod = 0 /\ Started(c, TRUE)
NextSync == Reconcile \/ Shutdown
SpecSync == InitSync /\ [][NextSync]_vars

\* The goroutine started by "go hc.ingressQueue.Run()": its loop and the
\* handler it calls.
IngressWorker(w) ==
  \/ WorkerGet(w) \/ WorkerQuit(w) \/ SyncIngressCheck(w) \/ SyncIngressCount(w)
  \/ SyncIngressConvert(w) \/ SyncIngressUpdate(w) \/ WorkerDone(w)

\* The goroutine started by "go hc.acmeQueue.Run()".
AcmeWorker == AcmeGet \/ (\E ok \in BOOLEAN : NotifyReturn(ok)) \/ AcmeQuit

\* Reconciliation beside certificate issuance on a started controller that
\* leads: certificates become needed, are enqueued by the check of
\* OnStartedLeading and by the periodic one, and are issued or fail at
\* will; the controller is shut down at some point or never.  Only the
\* ingress queue's goroutine is assumed to be scheduled again and again;
\* the ACME side may stall for good.
InitIssue ==
  \E c \in Cfgs : c.AcmeServer /\ c.StatsCollectProcPeriod = 0 /\ Started(c, FALSE)
NextIssue ==
  \/ Reconcile
  \/ ElectorAcquire \/ InstanceAcmeCheckBegin("leading") \/ InstanceAcmeCheckScan("leading")
  \/ CertNeeded("c1")
  \/ AcmeGet
  \/ \E ok \in BOOLEAN : NotifyReturn(ok)
  \/ DelayExpire("c1")
  \/ Shutdown
SpecIssue == InitIssue /\ [][NextIssue]_vars /\ WF_vars(IngressWorker(1))

\* The goroutine in Start() and the one in Stop().
StartTask == StartWait \/ StopServices
StopTask == StopSleep \/ StopController

\* The tasks that watch hc.stopCh see it closed and end.
TaskEnds == (\E t \in StopChTasks : TaskEnd(t)) \/ PeriodicEnd \/ ElectorEnd

\* The periodic check: the timer's tick and the scan it starts.
PeriodicTask ==
  \/ PeriodicCheck
  \/ InstanceAcmeCheckBegin("periodic") \/ InstanceAcmeCheckScan("periodic")

\* The shutdown of a started controller with all its tasks running and
\* with work in hand: this replica leads when it has an elector, a key is
\* enqueued, a certificate is needed, the periodic check runs, issuance
\* fails or succeeds.  Every goroutine that can take a step is scheduled
\* eventually; the calls from outside (Stop itself, the watchers' enqueue,
\* the timer's tick, the need of a certificate) come or do not.
InitStop ==
  \E c \in Cfgs :
    /\ c.StatsCollectProcPeriod = 1
    /\ c.WaitBeforeShutdown = 1
    /\ StartedAs(c, FALSE, IF c.AcmeServer THEN "self" ELSE "none")
NextStop ==
  \/ (EnqAttempts = 0 /\ Enqueue("resync"))
  \/ IngressWorker(1)
  \/ CertNeeded("c1")
  \/ PeriodicTask
  \/ AcmeWorker
  \/ Shutdown
  \/ TaskEnds
SpecStop ==
  /\ InitStop
  /\ [][NextStop]_vars
  /\ WF_vars(IngressWorker(1))
  /\ WF_vars(AcmeWorker)
  /\ WF_vars(StartTask)
  /\ WF_vars(StopTask)
  /\ WF_vars(InstanceAcmeCheckBegin("periodic") \/ InstanceAcmeCheckScan("periodic"))
  /\ \A t \in StopChTasks : WF_vars(TaskEnd(t))
  /\ WF_vars(PeriodicEnd)
  /\ WF_vars(ElectorEnd)

\* ------------------------------------------------------------------ claims
\* Workers inside a syncIngress invocation: from the call to the return.
InHandler == {w \in Workers : wpc[w] \in {"invoke", "count", "convert", "update"}}
\* Workers past the increment: writing the configuration model or applying it.
InBody == {w \in Workers : wpc[w] \in {"convert", "update"}}
IsShut(q) == q.kind # "nil" /\ q.shuttingDown
Quiescent ==
  /\ ingressQueue.kind # "nil"
  /\ Pending(ingressQueue) = {}
  /\ ingressQueue.processing = {}
  /\ \E w \in Workers : wpc[w] # "off"
  /\ \A w \in Workers : wpc[w] \in {"off", "idle", "exit"}

\* C1: at most one invocation of syncIngress is in progress in any state,
\* whatever the enqueues; so the configuration model has at most one writer
\* and two invocations never increment updateCount at once.
C1_HandlerSerialized ==
  /\ Cardinality(InHandler) <= 1
  /\ Cardinality(InBody) <= 1

\* An invocation is applying its update while another key waits in the queue
\* and its own key was enqueued again.
C1_Witness ==
  \E w \in Workers :
    /\ wpc[w] = "update"
    /\ Len(ingressQueue.queue) >= 1
    /\ witem[w] \in ingressQueue.dirty

\* C2: enqueues of one key are coalesced.  After an enqueue of a key the
\* handler is invoked at most once for it until it is enqueued again (so N
\* enqueues made during an invocation cause at most one more), and exactly
\* once by the time the queue is quiescent; N enqueues of "resync" made
\* before any dequeue cause exactly one invocation, after which the Update
\* Counter is 1 (the queue not being shut down under it).
C2_Coalesced ==
  /\ \A k \in Keys : runsSinceEnq[k] <= 1
  /\ Quiescent => \A k \in Keys : enqCount[k] > 0 => runsSinceEnq[k] = 1
  /\ (idleBurst /\ enqCount["resync"] >= 1) =>
       /\ invocations <= 1
       /\ updateCount <= 1
       /\ Quiescent => (invocations = 1 /\ (skipped = 0 => updateCount = 1))

\* Three enqueues of "resync" before any dequeue, handled by one invocation.
C2_Witness ==
  /\ idleBurst
  /\ enqCount["resync"] = 3
  /\ Quiescent
  /\ invocations = 1
  /\ updateCount = 1

C3_CounterInv == updateCount = completed + Cardinality(InBody)
C3_CounterStep ==
  \/ updateCount' = updateCount
  \/ /\ updateCount' = updateCount + 1
     /\ \E w \in Workers : wpc[w] = "count" /\ wpc'[w] = "convert"

\* C3: the Update Counter starts at 0, changes only by the increment of a
\* handler invocation that passed the shutdown test, by exactly 1, and
\* equals the completed reconciliations plus the ones in progress past the
\* increment (so it equals the completed ones whenever none is in progress).
C3_UpdateCounter ==
  /\ updateCount = 0
  /\ []C3_CounterInv
  /\ [][C3_CounterStep]_vars

\* Two reconciliations completed under enqueue pressure, one skipped.
C3_Witness ==
  /\ Quiescent
  /\ updateCount = 2
  /\ completed = 2
  /\ enqCount["resync"] >= 2

C4_SkipStep ==
  \A w \in Workers :
    (wpc[w] = "invoke" /\ wpc'[w] # "invoke" /\ ShuttingDown(ingressQueue)) =>
      /\ wpc'[w] = "done"
      /\ UNCHANGED <<updateCount, syncCalls, updateCalls, completed>>
C4_Accounting ==
  /\ invocations = updateCount + skipped
                     + Cardinality({w \in Workers : wpc[w] \in {"invoke", "count"}})
  /\ syncCalls <= updateCount
  /\ updateCalls <= syncCalls

\* C4: an invocation of syncIngress that finds ShuttingDown() true returns
\* at once: the Update Counter is unchanged and neither the converter's
\* Sync nor the instance's Update is called; every invocation is either
\* such a skip or one counted reconciliation.
C4_ShutdownSkip == []C4_Accounting /\ [][C4_SkipStep]_vars

\* An invocation was skipped after an earlier one had reconciled.
C4_Witness == skipped >= 1 /\ updateCount >= 1 /\ Quiescent

C5_ShutStep ==
  /\ IsShut(ingressQueue) =>
       /\ IsShut(ingressQueue')
       /\ Pending(ingressQueue') \subseteq Pending(ingressQueue)
       /\ (lateEnq' # lateEnq \/ enqCount' # enqCount) => ingressQueue' = ingressQueue
       /\ enqCount' = enqCount
       /\ \A w \in Workers : wpc'[w] = "count" => wpc[w] = "count"
  /\ IsShut(acmeQueue) => IsShut(acmeQueue')

\* C5: once a queue is shut down it stays shut down, an Enqueue leaves the
\* ingress queue as it is, nothing joins its pending items, and no
\* invocation of syncIngress gets past the shutdown test to the increment.
C5_AfterShutDown == [][C5_ShutStep]_vars

\* After ShutDown an enqueue was attempted and a drained item was skipped.
C5_Witness == IsShut(ingressQueue) /\ lateEnq >= 1 /\ skipped >= 1

\* C8, as claimed: the queues are shut down before the grace-period sleep
\* and before the stop signal reaches the external controller.
C8_QueuesStopFirst ==
  /\ (slept \/ stopCh) => IsShut(ingressQueue)
  /\ (slept \/ stopCh) => (acmeQueue.kind # "nil" => IsShut(acmeQueue))
  /\ (stopCh /\ cfg.WaitBeforeShutdown > 0) => slept

\* C8, amended: Stop() sleeps the grace period first, then signals the
\* external controller (the stop channel is closed); the queues are shut
\* down only after that signal, by Start() when it wakes up, both of them
\* by the time Start() returns.
C8_SleepSignalShutDown ==
  /\ (stopCh /\ cfg.WaitBeforeShutdown > 0) => slept
  /\ (IsShut(ingressQueue) \/ IsShut(acmeQueue)) => stopCh
  /\ pc = "returned" =>
       (IsShut(ingressQueue) /\ (acmeQueue.kind # "nil" => IsShut(acmeQueue)))

\* A shutdown with a grace period, both queues shut down at the end.
C8_Witness == pc = "returned" /\ slept /\ IsShut(acmeQueue)

\* The tasks the startup-order claim names.
ClaimedTasks == {"cache", "ingressWorker", "acmeWorker", "elector", "acmeCheck", "controller"}
IsClaimedTask(t) == t \in ClaimedTasks
ClaimedOrder(c) ==
  <<"cache", "ingressWorker">>
  \o (IF c.AcmeServer THEN <<"acmeWorker", "elector", "acmeCheck">> ELSE <<>>)
  \o <<"controller">>

\* C9, as claimed: cache watchers, then the workers of both queues, then
\* leader election, then the periodic check, then the external controller;
\* no leadership callback before the ACME queue's worker is started.
C9_ClaimedStartOrder ==
  /\ IsPrefix(SelectSeq(startLog, IsClaimedTask), ClaimedOrder(cfg))
  /\ cbFired => "acmeWorker" \in Range(startLog)

\* C9, amended: cache watchers, the ingress queue's worker, the idle
\* sampler when configured, then in certificate mode leader election, the
\* ACME socket server, the ACME queue's worker and the periodic check, and
\* last the external controller; a leadership callback fires only once the
\* elector runs and the ACME queue exists (its worker may not run yet).
C9_StartOrder ==
  /\ IsPrefix(startLog, StartOrder(cfg))
  /\ pc \in {"waiting", "stopServices", "stopAcme", "returned"} => startLog = StartOrder(cfg)
  /\ cbFired => ("elector" \in Range(startLog) /\ acmeQueue.kind # "nil")

\* A leadership callback was delivered before the ACME worker was started.
C9_Witness == cbFired /\ "acmeWorker" \notin Range(startLog) /\ pc = "goAcme"

\* The strategy "multibinder" stands for, per the deprecation warning.
CanonicalStrategy(v) == IF v = "multibinder" THEN "reusesocket" ELSE v

\* C10: the reload strategy handed to the instance for "multibinder" is the
\* one handed over for "reusesocket"; other allowed values pass unchanged.
C10_MultibinderIsReusesocket ==
  instanceOptions.created =>
    instanceOptions.ReloadStrategy = CanonicalStrategy(reloadStrategy)

\* Steps in which the elector delivers OnStoppedLeading.
StoppedLeadingStep == leader = "self" /\ leader' # "self"
\* Steps in which the ACME worker calls the signer's Notify.
NotifyCallStep == apc = "idle" /\ apc' = "signing"

C6_ClearStep == StoppedLeadingStep => Pending(acmeQueue') = {}
C6_NotifyStep == NotifyCallStep => aitem' \notin discarded

\* C6: right after OnStoppedLeading the ACME queue holds no pending item
\* (queued, coalesced or waiting for its backoff), and Notify is never
\* called afterwards for an item that was pending then, the queue's worker
\* running through all of it.  (An item that a check requests anew on a
\* replica that leads again, by a call made after the loss, is a new item.)
C6_StoppedLeadingClears == [][C6_ClearStep /\ C6_NotifyStep]_vars

C7_OnlyOnLeader == (apc = "signing" \/ Pending(acmeQueue) # {}) => leader = "self"
C7_NonLeaderAddsNothing ==
  (leader # "self" /\ leader' # "self") =>
    Pending(acmeQueue') \subseteq Pending(acmeQueue)

\* C7: issuance is scheduled or performed only on a replica that holds the
\* lease, and on a replica that does not hold it no check adds an item to
\* the ACME queue.
C7_IssuanceOnlyOnLeader ==
  /\ []C7_OnlyOnLeader
  /\ [][C7_NonLeaderAddsNothing]_vars

\* NewIngressController has returned: Start is at or past configController.
PastFlags == pc # "new"
NothingStarted ==
  /\ startLog = <<>>
  /\ \A w \in Workers : wpc[w] = "off"
  /\ apc = "off"
NothingBuilt ==
  /\ ingressQueue = NoQueue
  /\ acmeQueue = NoQueue
  /\ ~instanceOptions.created

\* A value of the flag outside the allow-list.
Unsupported(v) == v \in StrategyValues /\ ~SupportedStrategy(v)

\* C11, as claimed: with a reload strategy outside {native, reusesocket,
\* multibinder} the startup ends in a fatal error with no queue created and
\* no task started, and no queue is ever created and no task ever started
\* with such a value, in whatever order the host has made its calls.
C11_UnsupportedIsFatal ==
  /\ (pc \notin {"new", "config"} /\ Unsupported(reloadStrategy)) =>
       /\ pc = "fatal"
       /\ NothingBuilt
       /\ NothingStarted
  /\ (~NothingBuilt \/ ~NothingStarted) => SupportedStrategy(reloadStrategy)

\* Steps in which the startup is aborted inside NewIngressController.
HostFatalStep == pc = "new" /\ pc' = "fatal"

C11_CheckedInv ==
  /\ checked => SupportedStrategy(reloadStrategy)
  /\ (checked /\ (~NothingBuilt \/ ~NothingStarted)) => SupportedStrategy(reloadStrategy)
  /\ (pc = "fatal" /\ NothingBuilt) => (~SupportedStrategy(reloadStrategy) /\ NothingStarted)
C11_CheckedStep ==
  /\ HostFatalStep => (~SupportedStrategy(reloadStrategy) /\ NothingBuilt' /\ NothingStarted')
  /\ (PastFlags /\ pc # "fatal") => (reloadStrategy' = reloadStrategy /\ checked' = checked)
  /\ pc = "fatal" => pc' = "fatal"

\* C11, amended: OverrideFlags ends the startup in a fatal error for every
\* value outside the allow-list, with no queue created and no task started;
\* so where the host has called OverrideFlags after the flag last took its
\* value and before NewIngressController returns, no queue is created and no
\* task is started with an unsupported value.  Start and configController
\* test nothing themselves and leave the value as it is.
C11_CheckedIsSupported == []C11_CheckedInv /\ [][C11_CheckedStep]_vars

\* The startup was aborted by OverrideFlags for the value "bogus".
C11_Witness ==
  /\ pc = "fatal"
  /\ reloadStrategy = "bogus"
  /\ ~checked
  /\ NothingBuilt
  /\ NothingStarted

\* Steps in which Notify returns for item c, and those in which it failed
\* and a retry was scheduled.
NotifyReturnStep(c) == apc = "signing" /\ aitem = c /\ apc' = "idle"
NotifyFailedStep(c) == NotifyReturnStep(c) /\ acmeQueue'.lastDelay[c] > 0

\* The delay of a first failure: as claimed, and as amended.
ClaimedFirstDelay == cfg.AcmeFailInitialDuration
FirstDelay ==
  IF cfg.AcmeFailInitialDuration <= cfg.AcmeFailMaxDuration
  THEN cfg.AcmeFailInitialDuration ELSE cfg.AcmeFailMaxDuration

C12_ClaimedStep ==
  \A c \in Certs :
    /\ NotifyFailedStep(c) =>
         /\ acmeQueue'.lastDelay[c] >= acmeQueue.lastDelay[c]
         /\ acmeQueue'.lastDelay[c] <= cfg.AcmeFailMaxDuration
         /\ acmeQueue.failures[c] = 0 => acmeQueue'.lastDelay[c] = ClaimedFirstDelay
         /\ acmeQueue'.failures[c] >= 1
    /\ (NotifyReturnStep(c) /\ ~NotifyFailedStep(c)) => acmeQueue'.failures[c] = 0
    /\ ~NotifyReturnStep(c) =>
         /\ acmeQueue'.failures[c] = acmeQueue.failures[c]
         /\ acmeQueue'.lastDelay[c] = acmeQueue.lastDelay[c]

\* C12, as claimed: the delay scheduled after a failure is at least the
\* delay scheduled after the item's previous consecutive failure, is
\* AcmeFailInitialDuration when no failure precedes it since the item's
\* last success, and is never above AcmeFailMaxDuration; a success resets
\* the item; the return of Notify for one item leaves every other item's
\* failure count and delay alone.
C12_ClaimedBackoff == [][C12_ClaimedStep]_vars

C12_BackoffStep ==
  \A c \in Certs :
    /\ NotifyFailedStep(c) =>
         /\ acmeQueue'.lastDelay[c] >= acmeQueue.lastDelay[c]
         /\ acmeQueue'.lastDelay[c] <= cfg.AcmeFailMaxDuration
         /\ acmeQueue.failures[c] = 0 => acmeQueue'.lastDelay[c] = FirstDelay
         /\ acmeQueue'.failures[c] >= 1
    /\ (NotifyReturnStep(c) /\ ~NotifyFailedStep(c)) => acmeQueue'.failures[c] = 0
    /\ ~NotifyReturnStep(c) =>
         /\ acmeQueue'.failures[c] = acmeQueue.failures[c]
         /\ acmeQueue'.lastDelay[c] = acmeQueue.lastDelay[c]
C12_BackoffInv ==
  \A c \in Certs :
    /\ acmeQueue.lastDelay[c] <= cfg.AcmeFailMaxDuration
    /\ acmeQueue.failures[c] = 0 <=> acmeQueue.lastDelay[c] = 0
    /\ acmeQueue.failures[c] >= 1 => acmeQueue.lastDelay[c] >= FirstDelay

\* C12, amended: the two durations reach the queue as configured, in any
\* relation to each other.  The delay scheduled after a failure is at least
\* the delay scheduled after the item's previous consecutive failure and is
\* never above AcmeFailMaxDuration; the delay of a first failure (none
\* before it since the item's last success) is AcmeFailInitialDuration
\* when that is not above the maximum, and the maximum otherwise; a
\* success resets the item; the return of Notify for one item leaves every
\* other item's failure count and delay alone.
C12_BackoffDelays == []C12_BackoffInv /\ [][C12_BackoffStep]_vars

\* With durations 1 and 3 one item has failed three times (delays 1, 2 and
\* then the maximum); the other has failed once and waits the initial
\* duration.
C12_Witness ==
  /\ cfg.AcmeFailInitialDuration = 1
  /\ cfg.AcmeFailMaxDuration = 3
  /\ acmeQueue.failures["c1"] = 3
  /\ acmeQueue.lastDelay["c1"] = 3
  /\ acmeQueue.failures["c2"] = 1
  /\ acmeQueue.lastDelay["c2"] = 1

\* Steps in which the call of caller t does its enqueues and returns.
ScanStep(t) == t \in Scanning /\ scan'[t] = "idle"

C13_OneScanAtATime == Cardinality(Scanning) <= 1
C13_NoDuplicateRequest ==
  \A t \in ScanCallers :
    ScanStep(t) => Accepted(acmeQueue, needed) \cap overlap[t] = {}

\* C13: of the calls of instance.AcmeCheck made by the periodic timer, by
\* OnStartedLeading and by AcmeCheck, at no time two are scanning, and no
\* call enqueues a certificate that a call overlapping with it has enqueued
\* (the request still outstanding: not issued, not cleared).
C13_SafeUnderConcurrency == []C13_OneScanAtATime /\ [][C13_NoDuplicateRequest]_vars

\* Steps in which the scan started by OnStartedLeading does its enqueues
\* on a replica that has lost the lease since the scan began.
CancelledScanStep ==
  scan["leading"] \in {"scanning", "stale"} /\ scan'["leading"] = "idle" /\ leader # "self"

\* C14: once leadership is lost (the context of OnStartedLeading is
\* cancelled), the scan that callback started has no further effect: it
\* leaves the ACME queue as it is.
C14_ScanObservesCancel == [][CancelledScanStep => acmeQueue' = acmeQueue]_vars

\* The tasks a process must not have started when it aborts at startup.
ServingTasks == {"ingressWorker", "acmeWorker", "elector", "acmeCheck"}

\* C15: when the startup is aborted (the templates do not parse, or the
\* ACME control socket cannot be bound), no queue worker, no leader
\* elector and no periodic check has been started and syncIngress has not
\* been invoked.
C15_FatalBeforeServing ==
  (pc = "fatal" /\ PastFlags /\ SupportedStrategy(reloadStrategy)) =>
    /\ Range(startLog) \cap ServingTasks = {}
    /\ \A w \in Workers : wpc[w] = "off"
    /\ apc = "off"
    /\ invocations = 0

\* Steps in which the invocation of worker w returns after its converter
\* or its update failed.
FailedRunStep(w) ==
  wpc[w] = "update" /\ wpc'[w] = "done" /\ proxy'.failedRuns > proxy.failedRuns
\* Steps of the handler, from its call to its return.
HandlerStep(w) == w \in InHandler /\ wpc'[w] # wpc[w]
C16_FailStep ==
  \A w \in Workers :
    /\ FailedRunStep(w) => (pc' = pc /\ proxy'.live = proxy.live)
    /\ HandlerStep(w) => (ingressQueue' = ingressQueue /\ pc' = pc)
C16_FailInv ==
  /\ \A k \in Keys : runsSinceEnq[k] <= 1
  /\ \A w \in Workers : wpc[w] = "exit" => IsShut(ingressQueue)
  /\ proxy.live <= updateCount

\* C16: a reconciliation whose converter or update failed does not end
\* the process and leaves the live configuration as it was; no step of
\* the handler puts an item on the ingress queue, so the item is handled
\* again only after an Enqueue made since its dequeue; the worker ends
\* only when the queue is shut down.
C16_FailureStaysLocal == []C16_FailInv /\ [][C16_FailStep]_vars

\* The second reconciliation failed: the first one's configuration is
\* still live, nothing is queued, and the worker waits for the next item.
C16_Witness ==
  /\ updateCount = 2
  /\ proxy.failedRuns = 1
  /\ proxy.live = 1
  /\ Quiescent
  /\ wpc[1] = "idle"
  /\ ~IsShut(ingressQueue)

HandlerSteps == <<"count", "sync", "update">>
C17_RunInv ==
  \A w \in Workers :
    /\ IsPrefix(run[w].steps, HandlerSteps)
    /\ wpc[w] = "convert" => run[w].steps = <<"count">>
    /\ wpc[w] = "update" => run[w].steps = <<"count", "sync">>
    /\ wpc[w] = "done" =>
         \/ run[w].steps = <<>>
         \/ run[w].steps = HandlerSteps /\ run[w].finishId = run[w].startId
    /\ wpc[w] \in {"convert", "update"} => run[w].startId = updateCount
C17_Calls ==
  /\ syncCalls = updateCount - Cardinality({w \in Workers : wpc[w] = "convert"})
  /\ updateCalls = updateCount - Cardinality(InBody)

\* C17: an invocation of syncIngress that passes the shutdown test does
\* the increment, then the converter's Sync, then the instance's Update,
\* each once and in that order (Update is never reached without the Sync
\* of the same invocation), and the id in its finishing log line is the
\* id of its starting log line.
C17_HandlerOrder == C17_RunInv /\ C17_Calls

\* The second invocation has finished with id 2 in both log lines, while
\* its key was enqueued again.
C17_Witness ==
  /\ wpc[1] = "done"
  /\ run[1].steps = HandlerSteps
  /\ run[1].startId = 2
  /\ run[1].finishId = 2
  /\ witem[1] \in ingressQueue.dirty

\* A key waits on the ingress queue for its handler invocation.
Waiting(k) == ingressQueue.kind # "nil" /\ k \in Pending(ingressQueue)
\* The key has been handed to syncIngress and the invocation has returned.
Handled(k) ==
  /\ k \notin Pending(ingressQueue)
  /\ k \notin ingressQueue.processing
  /\ enqCount[k] > 0 => runsSinceEnq[k] = 1
C18_IssuanceStep ==
  \A c \in Certs :
    NotifyReturnStep(c) => UNCHANGED <<pc, updateCount, ingressQueue, wpc, proxy>>

\* C18: a key enqueued on the ingress queue is eventually handled by
\* syncIngress whatever the ACME queue's worker does, also when every
\* issuance attempt fails or never returns; the return of an issuance
\* attempt, failed or not, leaves the process running and the Update
\* Counter, the ingress queue and its worker as they are.
C18_IssuanceNeverBlocks ==
  /\ \A k \in Keys : Waiting(k) ~> Handled(k)
  /\ [][C18_IssuanceStep]_vars

\* A reconciliation has completed while the certificate has failed twice
\* and waits for its next attempt.
C18_Witness ==
  /\ acmeQueue.failures["c1"] = 2
  /\ "c1" \in acmeQueue.delayed
  /\ completed >= 1
  /\ Quiescent
  /\ pc = "waiting"

\* Every task startServices started has ended.
AllTasksEnded ==
  /\ (Range(startLog) \cap StopChTasks) \subseteq ended
  /\ \A w \in Workers : wpc[w] \in {"off", "exit"}
  /\ apc \in {"off", "exit"}
  /\ Scanning = {}

\* C19: once the stop channel is closed, every task startServices started
\* ends (the cache watchers, the idle sampler, the leader elector, the
\* ACME socket server and the periodic check on seeing the channel
\* closed, the two queue workers after ShutDown and the drain), and
\* Start() returns with both queues shut down.
C19_ShutdownReachesAll ==
  /\ stopCh ~> (pc = "returned" /\ AllTasksEnded)
  /\ [](pc = "returned" =>
          (IsShut(ingressQueue) /\ (acmeQueue.kind # "nil" => IsShut(acmeQueue))))

\* All seven tasks had been started and have ended, after a shutdown that
\* found a reconciliation and an issuance in progress.
C19_Witness ==
  /\ pc = "returned"
  /\ AllTasksEnded
  /\ ended = StopChTasks
  /\ wpc[1] = "exit"
  /\ apc = "exit"
  /\ skipped >= 1
  /\ acmeQueue.failures["c1"] >= 1

\* The controller is past the certificate-issuance block of configController.
PastConfigAcme ==
  pc \in {"configInstance", "startCache", "goIngress", "startIdle", "startElector",
          "acmeListen", "goAcme", "goAcmeCheck", "startController", "waiting",
          "stopServices", "stopAcme", "returned"}
AcmeTasks == {"elector", "acmeServer", "acmeWorker", "acmeCheck"}

C20_Inv ==
  /\ (PastConfigAcme /\ cfg.AcmeServer) =>
        /\ leaderelector = cfg.AcmeElectionID \o "-" \o cfg.IngressClass
        /\ leaderelector # "nil"
        /\ acmeSigner # "nil"
        /\ acmeQueue.kind = "failure"
  /\ (PastConfigAcme /\ ~cfg.AcmeServer) =>
        /\ leaderelector = "nil"
        /\ acmeSigner = "nil"
        /\ acmeQueue.kind = "nil"
  /\ instanceOptions.created =>
        /\ (instanceOptions.LeaderElector # "nil") = cfg.AcmeServer
        /\ (instanceOptions.AcmeSigner # "nil") = cfg.AcmeServer
        /\ (instanceOptions.AcmeQueue # "nil") = cfg.AcmeServer
  /\ cbFired => acmeQueue.kind # "nil"
  /\ ~cfg.AcmeServer =>
        /\ Range(startLog) \cap AcmeTasks = {}
        /\ apc = "off"
        /\ leader = "none"

\* A step in which the lease changes hands, that is, in which a leadership
\* callback is delivered.
C20_CallbackStep == (leader' # leader) => (acmeQueue.kind # "nil" /\ cfg.AcmeServer)

\* C20: after configController the leader elector, the ACME signer and the
\* failure-backoff queue are all there when cfg.AcmeServer is true and all
\* nil when it is false, the elector's id being
\* "<AcmeElectionID>-<IngressClass>", and the instance is handed the same
\* three; a leadership callback is only delivered when the queue exists;
\* with AcmeServer false no elector, control-socket server, ACME queue
\* worker or periodic check is ever started.
C20_AcmeAllOrNothing == []C20_Inv /\ [][C20_CallbackStep]_vars

\* The controller runs in certificate-issuance mode with the elector
\* "acme-leader-haproxy"; the lease was won and lost again, both callbacks
\* delivered.
C20_Witness ==
  /\ pc = "waiting"
  /\ cfg.AcmeServer
  /\ leaderelector = "acme-leader-haproxy"
  /\ instanceOptions.AcmeSigner = "signer"
  /\ cbFired
  /\ leader = "none"
  /\ scan["leading"] = "idle"

====
